---- MODULE Spec2Model ----
(***************************************************************************)
(* Model of dev/src/transaction.ts: one call of                            *)
(* Transaction.runTransaction(updateFunction, maxAttempts) on a freshly    *)
(* constructed Transaction, together with the calls the update function    *)
(* makes on the transaction (get, getAll, writes) and the answers of the   *)
(* server to the begin, commit and rollback requests.                      *)
(*                                                                         *)
(* Every await of runTransaction is a position of pc; the action that      *)
(* leaves a position runs the code up to the next await.                   *)
(***************************************************************************)
EXTENDS Integers, Sequences, FiniteSets, TLC

(***************************************************************************)
(* Bounds of the model.                                                    *)
(***************************************************************************)
MaxAttempts == 3
MaxOps == 2
MaxReads == 2
\* The longest argument list of getAll that SpecParse draws.
MaxArgs == 3

(***************************************************************************)
(* google-gax Status codes named by isRetryableTransactionError.           *)
(***************************************************************************)
CANCELLED == 1
UNKNOWN == 2
DEADLINE_EXCEEDED == 4
RESOURCE_EXHAUSTED == 8
ABORTED == 10
INTERNAL == 13
UNAVAILABLE == 14
UNAUTHENTICATED == 16

\* error.code === undefined: an Error that is no GoogleError.
NoCode == -1
\* this._transactionId === undefined: no handle obtained yet.
NoId == 0
\* ExponentialBackoff: the largest delay of the policy, in steps of the curve.
MaxDelay == 9

\* Status codes of the taxonomy that the switch sends to its default branch
\* (INVALID_ARGUMENT, PERMISSION_DENIED, FAILED_PRECONDITION).
OtherCodes == {3, 7, 9}

\* The retryable codes as the design lists them.
RetryableCodes ==
    {ABORTED, CANCELLED, UNKNOWN, DEADLINE_EXCEEDED, INTERNAL, UNAVAILABLE,
     UNAUTHENTICATED, RESOURCE_EXHAUSTED}

\* The codes a failing update function is drawn from.
WorkCodes == RetryableCodes \cup OtherCodes \cup {NoCode}
\* The codes a failing commit, begin and rollback request are drawn from.
CommitCodes == {ABORTED, 9}
BeginCodes == {UNAVAILABLE, 7}
RollbackCodes == {UNAVAILABLE}

\* The values the update function's promise resolves with.
Results == {"r1"}
\* The maxAttempts arguments of the call.
AttemptBudgets == (-1)..MaxAttempts

(***************************************************************************)
(* Errors.  origin tells who raised the error, attempt in which attempt.   *)
(***************************************************************************)
Err(origin, code, att) == [origin |-> origin, code |-> code, attempt |-> att]
\* lastError === undefined
NoError == Err("none", NoCode, -1)
\* new Error(READ_AFTER_WRITE_ERROR_MSG)
ReadAfterWriteError(att) == Err("gate", NoCode, att)
\* 'You must return a Promise in your transaction()-callback.'
MustReturnPromiseError(att) == Err("promise", NoCode, att)
\* The Errors of the argument validation of get and getAll.
ArgumentError(att) == Err("args", NoCode, att)

(***************************************************************************)
(* isRetryableTransactionError                                             *)
(***************************************************************************)
isRetryable_NoUnauthenticated(error) ==
    IF error.code # NoCode
    THEN error.code \in {ABORTED, CANCELLED, UNKNOWN, DEADLINE_EXCEEDED,
                         INTERNAL, UNAVAILABLE, RESOURCE_EXHAUSTED}
    ELSE FALSE

isRetryableTransactionError(error) ==
    IF error.code # NoCode
    THEN error.code \in {ABORTED, CANCELLED, UNKNOWN, DEADLINE_EXCEEDED,
                         INTERNAL, UNAVAILABLE, UNAUTHENTICATED,
                         RESOURCE_EXHAUSTED}
    ELSE FALSE

(***************************************************************************)
(* The arguments of getAll.  A DocumentReference, a plain object used as   *)
(* ReadOptions, an array, or any other value (a string, a number).         *)
(* maskKind says what the object's fieldMask property is: "undefined",     *)
(* "array" (fieldMask holds its entries) or "other" (not an array).        *)
(* A field mask entry is a dot-separated string or a FieldPath object,     *)
(* given by its segments; an entry with no segment is no field path.       *)
(***************************************************************************)
DocRef(id) ==
    [type |-> "ref", id |-> id, maskKind |-> "undefined", fieldMask |-> <<>>]
ReadOptions(maskKind, mask) ==
    [type |-> "options", id |-> 0, maskKind |-> maskKind, fieldMask |-> mask]
ArrayArg ==
    [type |-> "array", id |-> 0, maskKind |-> "undefined", fieldMask |-> <<>>]
OtherArg ==
    [type |-> "other", id |-> 0, maskKind |-> "undefined", fieldMask |-> <<>>]
PathString(segs) == [kind |-> "string", segs |-> segs]
FieldPathObj(segs) == [kind |-> "FieldPath", segs |-> segs]

\* util.isPlainObject: an object literal, not a class instance nor an array.
isPlainObject(x) == x.type = "options"
\* Array.isArray
isArray(x) == x.type = "array"
\* reference.validateDocumentReference: throws unless a DocumentReference.
validDocumentReference(x) == x.type = "ref"
\* path.validateFieldPath: throws unless a non-empty path.
validFieldPath(fp) == Len(fp.segs) > 0
\* FieldPath.fromArgument: a string is split into its segments.
fromArgument(fp) == FieldPathObj(fp.segs)

\* validateReadOptions(arg, value, {optional: true}); TRUE when it returns.
validateReadOptions(hasOptions, value) ==
    IF ~hasOptions
    THEN TRUE
    ELSE IF value.maskKind = "undefined"
         THEN TRUE
         ELSE IF value.maskKind # "array"
              THEN FALSE
              ELSE \A i \in 1..Len(value.fieldMask) :
                       validFieldPath(value.fieldMask[i])

\* The fieldMask of a parse without field mask.
NullMask == [isNull |-> TRUE, paths |-> <<>>]
Parsed(ok, documents, fieldMask) ==
    [ok |-> ok, documents |-> documents, fieldMask |-> fieldMask]
ParseThrows == Parsed(FALSE, <<>>, NullMask)

MapFromArgument(mask) == [i \in 1..Len(mask) |-> fromArgument(mask[i])]

\* parseGetAllArguments that leaves the read options among the documents.
parseGetAllArguments_NoPop(args) ==
    IF Len(args) > 0 /\ isArray(args[1])
    THEN ParseThrows
    ELSE LET popped == Len(args) > 0 /\ isPlainObject(args[Len(args)])
             readOptions == args[Len(args)]
         IN  IF ~validateReadOptions(popped, readOptions)
             THEN ParseThrows
             ELSE Parsed(TRUE, args,
                         IF popped /\ readOptions.maskKind = "array"
                         THEN [isNull |-> FALSE,
                               paths |-> MapFromArgument(
                                             readOptions.fieldMask)]
                         ELSE NullMask)

\* parseGetAllArguments(documentRefsOrReadOptions)
parseGetAllArguments(args) ==
    IF Len(args) > 0 /\ isArray(args[1])
    THEN ParseThrows
    ELSE LET popped == Len(args) > 0 /\ isPlainObject(args[Len(args)])
             readOptions == args[Len(args)]
             documents == IF popped THEN SubSeq(args, 1, Len(args) - 1)
                          ELSE args
         IN  IF \E i \in 1..Len(documents) :
                    ~validDocumentReference(documents[i])
             THEN ParseThrows
             ELSE IF ~validateReadOptions(popped, readOptions)
                  THEN ParseThrows
                  ELSE Parsed(TRUE, documents,
                              IF popped /\ readOptions.maskKind = "array"
                              THEN [isNull |-> FALSE,
                                    paths |-> MapFromArgument(
                                                  readOptions.fieldMask)]
                              ELSE NullMask)

(***************************************************************************)
(* The UpdateBuilder the Transaction extends: the buffered writes.         *)
(***************************************************************************)
\* UpdateBuilder.isEmpty
isEmpty(o) == Len(o) = 0
\* UpdateBuilder._reset
reset(o) == <<>>
\* create / set / update / delete: one more buffered write, recorded in
\* attempt att.
Write(att) == [attempt |-> att]

(***************************************************************************)
(* Transaction.get and Transaction.getAll: what a call does.               *)
(* thrown is the Error thrown synchronously (NoError when none), rpc       *)
(* whether the read request is sent (getAll_ or Query._get).               *)
(***************************************************************************)
Call(op, thrown, rpc) == [op |-> op, thrown |-> thrown, rpc |-> rpc]
NoCall == Call("none", NoError, FALSE)

\* The arguments of get: a DocumentReference, a Query, or neither.
GetArgs == {"ref", "query", "other"}

get_NoGate(refOrQuery, o, att) ==
    IF refOrQuery \in {"ref", "query"}
    THEN Call("get", NoError, TRUE)
    ELSE Call("get", ArgumentError(att), FALSE)

get(refOrQuery, o, att) ==
    IF ~isEmpty(o)
    THEN Call("get", ReadAfterWriteError(att), FALSE)
    ELSE IF refOrQuery \in {"ref", "query"}
         THEN Call("get", NoError, TRUE)
         ELSE Call("get", ArgumentError(att), FALSE)

getAll(args, o, att) ==
    IF ~isEmpty(o)
    THEN Call("getAll", ReadAfterWriteError(att), FALSE)
    ELSE IF Len(args) < 1
         THEN Call("getAll", ArgumentError(att), FALSE)
         ELSE IF ~parseGetAllArguments(args).ok
              THEN Call("getAll", ArgumentError(att), FALSE)
              ELSE Call("getAll", NoError, TRUE)

\* The argument lists of the getAll calls of the update function.
GetAllCalls ==
    { <<>>,
      <<DocRef(1)>>,
      <<DocRef(1), ReadOptions("array", <<PathString(<<"x">>)>>)>>,
      <<ReadOptions("undefined", <<>>)>>,
      <<ArrayArg>> }

(***************************************************************************)
(* The ExponentialBackoff of the transaction: currentBase is the delay of  *)
(* the next wait, 0 for a new policy.                                      *)
(***************************************************************************)
\* ExponentialBackoff.resetToMax
resetToMax(base) == MaxDelay
\* ExponentialBackoff.backoffAndWait: the base after the wait is scheduled.
nextBase(base) == IF base + 1 > MaxDelay THEN MaxDelay ELSE base + 1

\* Transaction.maybeBackoff: whether the policy is reset to its maximum.
maybeBackoff_AnyError(error) == error # NoError

maybeBackoffResets(error) ==
    error # NoError /\ error.code = RESOURCE_EXHAUSTED

(***************************************************************************)
(* State.                                                                  *)
(*   pc             the await runTransaction is suspended at: "loop" (the  *)
(*                  for statement), "backoff", "begin", "work" (the update *)
(*                  function runs), "commit", "rollback", "done"           *)
(*   maxAttempts, attempt, lastError, err, result   the arguments and      *)
(*                  locals of runTransaction                               *)
(*   outcome        how the promise of runTransaction settled              *)
(*   transactionId  Transaction._transactionId                             *)
(*   ops            the buffered writes of the UpdateBuilder               *)
(*   currentBase    the delay of the next wait of Transaction._backoff     *)
(*   pendingReads   read requests of the running update function that are  *)
(*                  not yet answered                                       *)
(* and, recorded to state the properties:                                  *)
(*   nReads         read requests the running update function has sent     *)
(*   lastCall       the last call on the transaction of the update         *)
(*                  function that is running                               *)
(*   lastReq        the last request sent, wait started or invocation of   *)
(*                  the update function                                    *)
(*   discarded      how many buffered writes the last _reset dropped       *)
(*   nBackoff, nBegin, nInvoke, nCommit, nRollback   how many waits were   *)
(*                  started, requests sent, invocations made               *)
(*   nRetryable     how many errors with a code of RetryableCodes the      *)
(*                  catch block has caught                                 *)
(*   lastResp       the last answer of the server to a begin, commit or    *)
(*                  rollback request                                       *)
(*   staleReads     whether a read request of an update function that has  *)
(*                  settled is not yet answered                            *)
(*   getAllArgs, parsed   an argument list of getAll and what              *)
(*                  parseGetAllArguments made of it (SpecParse only)       *)
(***************************************************************************)
VARIABLES pc, maxAttempts, attempt, lastError, err, result, outcome,
          transactionId, ops, currentBase, pendingReads,
          nReads, lastCall, lastReq, discarded,
          nBackoff, nBegin, nInvoke, nCommit, nRollback,
          nRetryable, lastResp, staleReads, getAllArgs, parsed

vars == <<pc, maxAttempts, attempt, lastError, err, result, outcome,
          transactionId, ops, currentBase, pendingReads,
          nReads, lastCall, lastReq, discarded,
          nBackoff, nBegin, nInvoke, nCommit, nRollback,
          nRetryable, lastResp, staleReads, getAllArgs, parsed>>

locals == <<maxAttempts, attempt, lastError, err, result, outcome>>
counters == <<nBackoff, nBegin, nInvoke, nCommit, nRollback, nRetryable>>
parseVars == <<getAllArgs, parsed>>

NoResult == [value |-> "undefined", attempt |-> -1]
Pending == [kind |-> "pending", value |-> NoResult, error |-> NoError]
Resolved(r) == [kind |-> "resolved", value |-> r, error |-> NoError]
Rejected(e) == [kind |-> "rejected", value |-> NoResult, error |-> e]

\* A request, wait or invocation: its attempt, the handle it carries, the
\* retry hint (begin), whether the policy was reset and the delay (backoff),
\* the writes it carries (commit) or finds buffered (invoke, read).
Req(type, att, tid, hint, forced, delay, writes) ==
    [type |-> type, attempt |-> att, tid |-> tid, hint |-> hint,
     forced |-> forced, delay |-> delay, writes |-> writes]
NoReq == Req("none", -1, NoId, NoId, FALSE, 0, <<>>)

Init ==
    /\ pc = "loop"
    /\ maxAttempts \in AttemptBudgets
    /\ attempt = 0
    /\ lastError = NoError
    /\ err = NoError
    /\ result = NoResult
    /\ outcome = Pending
    /\ transactionId = NoId
    /\ ops = <<>>
    /\ currentBase = 0
    /\ pendingReads = 0
    /\ nReads = 0
    /\ lastCall = NoCall
    /\ lastReq = NoReq
    /\ discarded = 0
    /\ nBackoff = 0 /\ nBegin = 0 /\ nInvoke = 0
    /\ nCommit = 0 /\ nRollback = 0
    /\ nRetryable = 0
    /\ lastResp = "none"
    /\ staleReads = FALSE
    /\ getAllArgs = <<>>
    /\ parsed = ParseThrows

(***************************************************************************)
(* runTransaction, from the head of the for statement to the await of      *)
(* maybeBackoff: _reset(), then maybeBackoff(lastError) up to its await.   *)
(***************************************************************************)
LoopEnter_BackoffOnlyOnRetry ==
    /\ pc = "loop"
    /\ attempt < maxAttempts
    /\ discarded' = Len(ops)
    /\ ops' = reset(ops)
    /\ LET forced == maybeBackoffResets(lastError)
           base == IF forced THEN resetToMax(currentBase) ELSE currentBase
       IN  IF lastError # NoError
           THEN /\ lastReq' = Req("backoff", attempt, transactionId, NoId,
                                  forced, base, <<>>)
                /\ currentBase' = nextBase(base)
                /\ nBackoff' = nBackoff + 1
           ELSE UNCHANGED <<lastReq, currentBase, nBackoff>>
    /\ err' = NoError
    /\ pc' = "backoff"
    /\ UNCHANGED <<maxAttempts, attempt, lastError, result, outcome,
                   transactionId, pendingReads, nReads, lastCall,
                   nBegin, nInvoke, nCommit, nRollback, nRetryable,
                   lastResp,
                   staleReads, parseVars>>

LoopEnter_NoReset ==
    /\ pc = "loop"
    /\ attempt < maxAttempts
    /\ discarded' = Len(ops)
    /\ ops' = ops
    /\ LET forced == maybeBackoffResets(lastError)
           base == IF forced THEN resetToMax(currentBase) ELSE currentBase
       IN  /\ lastReq' = Req("backoff", attempt, transactionId, NoId,
                             forced, base, <<>>)
           /\ currentBase' = nextBase(base)
    /\ nBackoff' = nBackoff + 1
    /\ err' = NoError
    /\ pc' = "backoff"
    /\ UNCHANGED <<maxAttempts, attempt, lastError, result, outcome,
                   transactionId, pendingReads, nReads, lastCall,
                   nBegin, nInvoke, nCommit, nRollback, nRetryable,
                   lastResp,
                   staleReads, parseVars>>

LoopEnter_OffByOne ==
    /\ pc = "loop"
    /\ attempt <= maxAttempts
    /\ discarded' = Len(ops)
    /\ ops' = reset(ops)
    /\ LET forced == maybeBackoffResets(lastError)
           base == IF forced THEN resetToMax(currentBase) ELSE currentBase
       IN  /\ lastReq' = Req("backoff", attempt, transactionId, NoId,
                             forced, base, <<>>)
           /\ currentBase' = nextBase(base)
    /\ nBackoff' = nBackoff + 1
    /\ err' = NoError
    /\ pc' = "backoff"
    /\ UNCHANGED <<maxAttempts, attempt, lastError, result, outcome,
                   transactionId, pendingReads, nReads, lastCall,
                   nBegin, nInvoke, nCommit, nRollback, nRetryable,
                   lastResp,
                   staleReads, parseVars>>

LoopEnter ==
    /\ pc = "loop"
    /\ attempt < maxAttempts
    /\ discarded' = Len(ops)
    /\ ops' = reset(ops)
    /\ LET forced == maybeBackoffResets(lastError)
           base == IF forced THEN resetToMax(currentBase) ELSE currentBase
       IN  /\ lastReq' = Req("backoff", attempt, transactionId, NoId,
                             forced, base, <<>>)
           /\ currentBase' = nextBase(base)
    /\ nBackoff' = nBackoff + 1
    /\ err' = NoError
    /\ pc' = "backoff"
    /\ UNCHANGED <<maxAttempts, attempt, lastError, result, outcome,
                   transactionId, pendingReads, nReads, lastCall,
                   nBegin, nInvoke, nCommit, nRollback, nRetryable,
                   lastResp,
                   staleReads, parseVars>>

\* The for statement ends: Promise.reject(lastError).
LoopExit ==
    /\ pc = "loop"
    /\ ~(attempt < maxAttempts)
    /\ outcome' = Rejected(lastError)
    /\ pc' = "done"
    /\ UNCHANGED <<maxAttempts, attempt, lastError, err, result,
                   transactionId, ops, currentBase, pendingReads,
                   nReads, lastCall, lastReq, discarded, counters, lastResp,
                   staleReads, parseVars>>

BackoffDone_NoHint ==
    /\ pc = "backoff"
    /\ lastReq' = Req("begin", attempt, NoId, NoId, FALSE, 0, <<>>)
    /\ nBegin' = nBegin + 1
    /\ pc' = "begin"
    /\ UNCHANGED <<locals, transactionId, ops, currentBase, pendingReads,
                   nReads, lastCall, discarded,
                   nBackoff, nInvoke, nCommit, nRollback, nRetryable,
                   lastResp, staleReads, parseVars>>

\* The wait of the backoff ends; begin() sends the beginTransaction request,
\* with the handle held as retryTransaction when there is one.
BackoffDone ==
    /\ pc = "backoff"
    /\ lastReq' = Req("begin", attempt, NoId, transactionId, FALSE, 0, <<>>)
    /\ nBegin' = nBegin + 1
    /\ pc' = "begin"
    /\ UNCHANGED <<locals, transactionId, ops, currentBase, pendingReads,
                   nReads, lastCall, discarded,
                   nBackoff, nInvoke, nCommit, nRollback, nRetryable,
                   lastResp,
                   staleReads, parseVars>>

\* BeginOk that stores the handle of the response only when none is held.
BeginOk_KeepsHandle ==
    /\ pc = "begin"
    /\ transactionId' = IF transactionId = NoId THEN nBegin
                        ELSE transactionId
    /\ lastReq' = Req("invoke", attempt, nBegin, NoId, FALSE, 0, ops)
    /\ nInvoke' = nInvoke + 1
    /\ pc' = "work"
    /\ lastResp' = "beginOk"
    /\ UNCHANGED <<locals, ops, currentBase, pendingReads,
                   nReads, lastCall, discarded,
                   nBackoff, nBegin, nCommit, nRollback, nRetryable,
                   staleReads, parseVars>>

\* The begin response arrives: its handle is stored, and updateFunction(this)
\* is invoked.  The server issues a new handle with every begin.
BeginOk ==
    /\ pc = "begin"
    /\ transactionId' = nBegin
    /\ lastReq' = Req("invoke", attempt, nBegin, NoId, FALSE, 0, ops)
    /\ nInvoke' = nInvoke + 1
    /\ pc' = "work"
    /\ lastResp' = "beginOk"
    /\ UNCHANGED <<locals, ops, currentBase, pendingReads,
                   nReads, lastCall, discarded,
                   nBackoff, nBegin, nCommit, nRollback, nRetryable,
                   staleReads, parseVars>>

\* The update function has settled: its calls are no longer recorded, and
\* the reads it left unanswered stay in flight.
Settled ==
    /\ lastCall' = NoCall
    /\ nReads' = 0
    /\ pendingReads' = 0
    /\ staleReads' = (staleReads \/ pendingReads > 0)

Catch_RollbackNotAwaited(e) ==
    /\ err' = e
    /\ lastReq' = Req("rollback", attempt, transactionId, NoId, FALSE, 0, <<>>)
    /\ nRollback' = nRollback + 1
    /\ Settled
    /\ nRetryable' = IF e.code \in RetryableCodes THEN nRetryable + 1
                     ELSE nRetryable
    /\ IF isRetryableTransactionError(e)
       THEN /\ lastError' = e
            /\ attempt' = attempt + 1
            /\ pc' = "loop"
            /\ UNCHANGED outcome
       ELSE /\ outcome' = Rejected(e)
            /\ pc' = "done"
            /\ UNCHANGED <<lastError, attempt>>
    /\ UNCHANGED <<maxAttempts, result,
                   transactionId, ops, currentBase, discarded,
                   nBackoff, nBegin, nInvoke, nCommit,
                   parseVars>>

\* Catch that classifies the error without sending a rollback request.
Catch_NoRollbackRequest(e) ==
    /\ err' = e
    /\ pc' = "rollback"
    /\ Settled
    /\ nRetryable' = IF e.code \in RetryableCodes THEN nRetryable + 1
                     ELSE nRetryable
    /\ UNCHANGED <<maxAttempts, attempt, lastError, result, outcome,
                   transactionId, ops, currentBase, discarded, lastReq,
                   nBackoff, nBegin, nInvoke, nCommit, nRollback,
                   parseVars>>

\* The catch block up to its await: rollback() sends the rollback request.
Catch(e) ==
    /\ err' = e
    /\ lastReq' = Req("rollback", attempt, transactionId, NoId, FALSE, 0, <<>>)
    /\ nRollback' = nRollback + 1
    /\ pc' = "rollback"
    /\ Settled
    /\ nRetryable' = IF e.code \in RetryableCodes THEN nRetryable + 1
                     ELSE nRetryable
    /\ UNCHANGED <<maxAttempts, attempt, lastError, result, outcome,
                   transactionId, ops, currentBase, discarded,
                   nBackoff, nBegin, nInvoke, nCommit,
                   parseVars>>

BeginFail_Caught(e) ==
    /\ pc = "begin"
    /\ Catch(e)
    /\ lastResp' = "beginFail"

\* The begin request fails: await this.begin() is outside the try statement.
BeginFail(e) ==
    /\ pc = "begin"
    /\ outcome' = Rejected(e)
    /\ pc' = "done"
    /\ lastResp' = "beginFail"
    /\ UNCHANGED <<maxAttempts, attempt, lastError, err, result,
                   transactionId, ops, currentBase, pendingReads,
                   nReads, lastCall, lastReq, discarded, counters,
                   staleReads, parseVars>>

(***************************************************************************)
(* The update function, between its invocation and the settling of its     *)
(* promise: it calls the write methods, get and getAll in any order, and   *)
(* its reads are answered at any time.                                     *)
(***************************************************************************)
\* A call of get or getAll: the read request is sent unless the call throws.
ReadCall(c) ==
    /\ lastCall' = c
    /\ nReads' = IF c.rpc THEN nReads + 1 ELSE nReads
    /\ pendingReads' = IF c.rpc THEN pendingReads + 1 ELSE pendingReads
    /\ lastReq' = IF c.rpc
                  THEN Req("read", attempt, transactionId, NoId, FALSE, 0, ops)
                  ELSE lastReq
    /\ UNCHANGED <<pc, locals, transactionId, ops, currentBase,
                   discarded, counters, lastResp,
                   staleReads, parseVars>>

\* WorkGet with a gate that also rejects a read while another is in flight.
WorkGet_OneAtATime(refOrQuery) ==
    /\ pc = "work"
    /\ nReads < MaxReads
    /\ ReadCall(IF pendingReads > 0
                THEN Call("get", ReadAfterWriteError(attempt), FALSE)
                ELSE get(refOrQuery, ops, attempt))

WorkGet(refOrQuery) ==
    /\ pc = "work"
    /\ nReads < MaxReads
    /\ ReadCall(get(refOrQuery, ops, attempt))

WorkGetAll(args) ==
    /\ pc = "work"
    /\ nReads < MaxReads
    /\ ReadCall(getAll(args, ops, attempt))

\* create, set, update or delete buffers a write.
WorkWrite ==
    /\ pc = "work"
    /\ Len(ops) < MaxOps
    /\ ops' = Append(ops, Write(attempt))
    /\ lastCall' = Call("write", NoError, FALSE)
    /\ UNCHANGED <<pc, locals, transactionId, currentBase, pendingReads,
                   nReads, lastReq, discarded, counters, lastResp,
                   staleReads, parseVars>>

\* A read request is answered.
ReadDone ==
    /\ pc = "work"
    /\ pendingReads > 0
    /\ pendingReads' = pendingReads - 1
    /\ UNCHANGED <<pc, locals, transactionId, ops, currentBase,
                   nReads, lastCall, lastReq, discarded, counters, lastResp,
                   staleReads, parseVars>>

\* The last read request that a settled update function left unanswered is
\* answered.
StaleReadsDone ==
    /\ staleReads
    /\ staleReads' = FALSE
    /\ UNCHANGED <<pc, locals, transactionId, ops, currentBase, pendingReads,
                   nReads, lastCall, lastReq, discarded, counters, lastResp,
                   parseVars>>

\* The promise of the update function resolves with r: commit() sends the
\* commit request with the handle and the buffered writes.
WorkResolve(r) ==
    /\ pc = "work"
    /\ result' = [value |-> r, attempt |-> attempt]
    /\ lastReq' = Req("commit", attempt, transactionId, NoId, FALSE, 0, ops)
    /\ nCommit' = nCommit + 1
    /\ pc' = "commit"
    /\ Settled
    /\ UNCHANGED <<maxAttempts, attempt, lastError, err, outcome,
                   transactionId, ops, currentBase, discarded,
                   nBackoff, nBegin, nInvoke, nRollback, nRetryable,
                   lastResp,
                   parseVars>>

\* The update function throws an error of its own or of a failed read, or
\* its promise rejects with it.
WorkFail(e) ==
    /\ pc = "work"
    /\ Catch(e)
    /\ UNCHANGED lastResp

\* The update function lets the Error that its last call on the transaction
\* threw escape.
WorkRethrows ==
    /\ pc = "work"
    /\ lastCall.thrown # NoError
    /\ Catch(lastCall.thrown)
    /\ UNCHANGED lastResp

\* The update function returns a value that is no Promise, before any of
\* the reads it started is answered.
WorkReturnsNonPromise ==
    /\ pc = "work"
    /\ pendingReads >= nReads
    /\ Catch(MustReturnPromiseError(attempt))
    /\ UNCHANGED lastResp

CommitOk_ThenRollback ==
    /\ pc = "commit"
    /\ Catch(Err("commit", ABORTED, attempt))
    /\ lastResp' = "commitOk"

\* The commit request succeeds: return result.
CommitOk ==
    /\ pc = "commit"
    /\ outcome' = Resolved(result)
    /\ pc' = "done"
    /\ lastResp' = "commitOk"
    /\ UNCHANGED <<maxAttempts, attempt, lastError, err, result,
                   transactionId, ops, currentBase, pendingReads,
                   nReads, lastCall, lastReq, discarded, counters,
                   staleReads, parseVars>>

\* The commit request fails with e.
CommitFail(e) ==
    /\ pc = "commit"
    /\ Catch(e)
    /\ lastResp' = "commitFail"

\* The rollback request succeeds: the error caught is classified.
RollbackOk ==
    /\ pc = "rollback"
    /\ IF isRetryableTransactionError(err)
       THEN /\ lastError' = err
            /\ attempt' = attempt + 1
            /\ pc' = "loop"
            /\ UNCHANGED outcome
       ELSE /\ outcome' = Rejected(err)
            /\ pc' = "done"
            /\ UNCHANGED <<lastError, attempt>>
    /\ lastResp' = "rollbackOk"
    /\ UNCHANGED <<maxAttempts, err, result,
                   transactionId, ops, currentBase, pendingReads,
                   nReads, lastCall, lastReq, discarded, counters,
                   staleReads, parseVars>>

\* The rollback request fails with e: await this.rollback() throws inside
\* the catch block, and the promise of runTransaction rejects with e.
RollbackFail(e) ==
    /\ pc = "rollback"
    /\ outcome' = Rejected(e)
    /\ pc' = "done"
    /\ lastResp' = "rollbackFail"
    /\ UNCHANGED <<maxAttempts, attempt, lastError, err, result,
                   transactionId, ops, currentBase, pendingReads,
                   nReads, lastCall, lastReq, discarded, counters,
                   staleReads, parseVars>>

Next ==
    \/ LoopEnter
    \/ LoopExit
    \/ BackoffDone
    \/ BeginOk
    \/ \E c \in BeginCodes : BeginFail(Err("begin", c, attempt))
    \/ \E a \in GetArgs : WorkGet(a)
    \/ \E args \in GetAllCalls : WorkGetAll(args)
    \/ WorkWrite
    \/ ReadDone
    \/ StaleReadsDone
    \/ \E r \in Results : WorkResolve(r)
    \/ \E c \in WorkCodes : WorkFail(Err("work", c, attempt))
    \/ WorkRethrows
    \/ WorkReturnsNonPromise
    \/ CommitOk
    \/ \E c \in CommitCodes : CommitFail(Err("commit", c, attempt))
    \/ RollbackOk
    \/ \E c \in RollbackCodes : RollbackFail(Err("rollback", c, attempt))

Spec == Init /\ [][Next]_vars

(***************************************************************************)
(* What runTransaction itself does and what the server and the timer       *)
(* answer, as opposed to the calls the update function makes while it      *)
(* runs.  Under FairSpec every wait, every request and every run of the    *)
(* update function comes to an end.                                        *)
(***************************************************************************)
Progress ==
    \/ LoopEnter
    \/ LoopExit
    \/ BackoffDone
    \/ BeginOk
    \/ \E c \in BeginCodes : BeginFail(Err("begin", c, attempt))
    \/ \E r \in Results : WorkResolve(r)
    \/ \E c \in WorkCodes : WorkFail(Err("work", c, attempt))
    \/ WorkRethrows
    \/ WorkReturnsNonPromise
    \/ CommitOk
    \/ \E c \in CommitCodes : CommitFail(Err("commit", c, attempt))
    \/ RollbackOk
    \/ \E c \in RollbackCodes : RollbackFail(Err("rollback", c, attempt))

FairSpec == Spec /\ WF_vars(Progress)

(***************************************************************************)
(* getAll and parseGetAllArguments on their own.  SpecParse draws an       *)
(* argument list of at most MaxArgs values and a transaction, with or      *)
(* without a buffered write, whose first update function is running, and   *)
(* applies parseGetAllArguments or getAll to it.  pc is "args" before the  *)
(* call, "parsed" after parseGetAllArguments and "called" after getAll.    *)
(***************************************************************************)
\* The values an argument of getAll is drawn from.
ArgValues ==
    { DocRef(1), DocRef(2),
      ReadOptions("undefined", <<>>),
      ReadOptions("array", <<>>),
      ReadOptions("array", <<PathString(<<"x">>)>>),
      ReadOptions("array", <<PathString(<<"x">>), FieldPathObj(<<"y", "z">>)>>),
      ReadOptions("array", <<PathString(<<>>)>>),
      ReadOptions("other", <<>>),
      ArrayArg, OtherArg }

ArgLists == UNION { [1..n -> ArgValues] : n \in 0..MaxArgs }

InitParse ==
    /\ pc = "args"
    /\ getAllArgs \in ArgLists
    /\ ops \in {<<>>, <<Write(0)>>}
    /\ parsed = ParseThrows
    /\ maxAttempts = 1
    /\ attempt = 0
    /\ lastError = NoError
    /\ err = NoError
    /\ result = NoResult
    /\ outcome = Pending
    /\ transactionId = 1
    /\ currentBase = nextBase(0)
    /\ pendingReads = 0
    /\ nReads = 0
    /\ lastCall = NoCall
    /\ lastReq = Req("invoke", 0, 1, NoId, FALSE, 0, <<>>)
    /\ discarded = 0
    /\ nBackoff = 1 /\ nBegin = 1 /\ nInvoke = 1
    /\ nCommit = 0 /\ nRollback = 0
    /\ nRetryable = 0
    /\ lastResp = "beginOk"
    /\ staleReads = FALSE

\* parseGetAllArguments(getAllArgs)
ParseArgs ==
    /\ pc = "args"
    /\ parsed' = parseGetAllArguments(getAllArgs)
    /\ pc' = "parsed"
    /\ UNCHANGED <<locals, transactionId, ops, currentBase, pendingReads,
                   nReads, lastCall, lastReq, discarded, counters, lastResp,
                   staleReads, getAllArgs>>

\* transaction.getAll(...getAllArgs)
CallGetAll ==
    /\ pc = "args"
    /\ pc' = "called"
    /\ LET c == getAll(getAllArgs, ops, attempt)
       IN  /\ lastCall' = c
           /\ nReads' = IF c.rpc THEN nReads + 1 ELSE nReads
           /\ pendingReads' = IF c.rpc THEN pendingReads + 1
                              ELSE pendingReads
           /\ lastReq' = IF c.rpc
                         THEN Req("read", attempt, transactionId, NoId,
                                  FALSE, 0, ops)
                         ELSE lastReq
    /\ UNCHANGED <<locals, transactionId, ops, currentBase,
                   discarded, counters, lastResp, staleReads, parseVars>>

NextParse ==
    \/ ParseArgs
    \/ CallGetAll

SpecParse == InitParse /\ [][NextParse]_vars

(***************************************************************************)
(* Properties.                                                             *)
(***************************************************************************)
IsRead(c) == c.op \in {"get", "getAll"}
Done == pc = "done"

\* C1: a get or getAll called while writes are buffered throws the
\* read-after-write Error and sends no read request; a read called while no
\* write is buffered is never rejected by the gate; every read request that
\* is sent is sent while no write is buffered.  (A write replaces lastCall,
\* so while lastCall is a read, ops is what the read found.)
C1_ReadGate ==
    /\ (pc = "work" /\ IsRead(lastCall) /\ ops # <<>>)
           => /\ lastCall.thrown = ReadAfterWriteError(attempt)
              /\ ~lastCall.rpc
    /\ (pc = "work" /\ IsRead(lastCall) /\ ops = <<>>)
           => lastCall.thrown.origin # "gate"
    /\ lastReq.type = "read" => lastReq.writes = <<>>

\* A getAll after a write was rejected by the gate.
C1_Witness ==
    /\ pc = "work"
    /\ lastCall.op = "getAll"
    /\ Len(ops) > 0
    /\ lastCall.thrown = ReadAfterWriteError(attempt)

\* C2: when every attempt fails (update function or commit) with a retryable
\* code and no begin or rollback request fails, runTransaction with
\* maxAttempts >= 1 ends after exactly maxAttempts begin requests and
\* maxAttempts rollback requests, rejected with the error of the last
\* attempt; begin and rollback requests alternate, beginning with a begin.
C2_ExhaustedAttempts ==
    /\ nRollback <= nBegin
    /\ nBegin <= nRollback + 1
    /\ (/\ Done
        /\ maxAttempts >= 1
        /\ nRetryable = nBegin
        /\ lastResp \notin {"beginFail", "rollbackFail"})
           => /\ nBegin = maxAttempts
              /\ nRollback = maxAttempts
              /\ outcome.kind = "rejected"
              /\ outcome.error = lastError
              /\ outcome.error.attempt = maxAttempts - 1
              /\ outcome.error.code \in RetryableCodes

\* Three attempts failed with retryable errors, the last with
\* UNAUTHENTICATED, and runTransaction has rejected.
C2_Witness ==
    /\ Done
    /\ maxAttempts = 3
    /\ nRetryable = 3
    /\ nBegin = 3
    /\ lastResp = "rollbackOk"
    /\ outcome.error.code = UNAUTHENTICATED

\* C3: when the update function or commit fails with an error whose code is
\* not retryable, or that has no code, one rollback request is sent for that
\* attempt and runTransaction rejects with that same error, with no further
\* begin, invocation or commit.
C3_NonRetryableRejects ==
    (/\ Done
     /\ err # NoError
     /\ err.code \notin RetryableCodes)
        => /\ outcome = Rejected(err)
           /\ err.attempt = attempt
           /\ nRollback = attempt + 1
           /\ nBegin = attempt + 1
           /\ nInvoke = attempt + 1
           /\ lastReq.type = "rollback"

\* C4: a failed rollback request does not change the outcome: the rejection
\* of runTransaction carries the error that led to the rollback, never the
\* error of the rollback request.
C4_RollbackFailureIgnored ==
    (Done /\ lastResp = "rollbackFail")
        => /\ outcome.kind = "rejected"
           /\ outcome.error = err
           /\ outcome.error.origin # "rollback"

\* C5: when a begin request fails, in the first attempt or a later one,
\* runTransaction rejects at once with the error of the begin request: the
\* update function is not invoked and no commit, rollback, wait or begin
\* follows in that attempt or after it, whatever the code of the error.
C5_BeginFailureRejects ==
    lastResp = "beginFail"
        => /\ Done
           /\ outcome.kind = "rejected"
           /\ outcome.error.origin = "begin"
           /\ outcome.error.attempt = attempt
           /\ lastReq.type = "begin"
           /\ lastReq.attempt = attempt
           /\ nBegin = attempt + 1
           /\ nBackoff = attempt + 1
           /\ nInvoke = attempt
           /\ nRollback = attempt
           /\ nCommit <= attempt

\* The begin of the second attempt failed with a retryable code while
\* attempts remained.
C5_Witness ==
    /\ lastResp = "beginFail"
    /\ attempt = 1
    /\ maxAttempts = 3
    /\ outcome.error.code = UNAVAILABLE

\* C6: when the promise of the update function resolves with r and the
\* commit request succeeds, runTransaction resolves with the r of that
\* attempt, and nothing follows: no rollback request for that attempt, no
\* further begin, wait or invocation.
C6_CommitResolves ==
    lastResp = "commitOk"
        => /\ Done
           /\ outcome = Resolved(result)
           /\ result.attempt = attempt
           /\ result.value \in Results
           /\ lastReq.type = "commit"
           /\ lastReq.attempt = attempt
           /\ nRollback = attempt
           /\ nBegin = attempt + 1
           /\ nBackoff = attempt + 1
           /\ nInvoke = attempt + 1

\* The third attempt committed after two attempts failed with retryable
\* errors.
C6_Witness ==
    /\ lastResp = "commitOk"
    /\ attempt = 2
    /\ nRetryable = 2
    /\ outcome.kind = "resolved"

\* C7: when the update function returns a value that is no Promise,
\* runTransaction rejects with the 'must return a Promise' Error, sends no
\* commit request for that attempt and does not begin another attempt.
C7_NonPromiseRejects ==
    /\ err.origin = "promise" => lastReq.type # "commit"
    /\ (Done /\ err.origin = "promise")
           => /\ outcome = Rejected(err)
              /\ err.attempt = attempt
              /\ nBegin = attempt + 1

\* C8: the wait before an attempt resets the policy to its maximum delay
\* exactly when the error remembered from the attempt before has code
\* RESOURCE_EXHAUSTED; a wait that resets lasts the maximum delay, and the
\* first two waits, when not reset, last the first two delays of the policy.
C8_ResetToMaxOnResourceExhausted ==
    lastReq.type = "backoff"
        => /\ lastReq.forced <=>
                  (attempt >= 1 /\ lastError.code = RESOURCE_EXHAUSTED)
           /\ attempt >= 1 => lastError.attempt = attempt - 1
           /\ attempt = 0 => lastError = NoError
           /\ lastReq.forced => lastReq.delay = MaxDelay
           /\ (~lastReq.forced /\ attempt <= 1) => lastReq.delay = attempt

\* The wait before the second attempt was reset to the maximum delay.
C8_Witness ==
    /\ lastReq.type = "backoff"
    /\ attempt = 1
    /\ lastReq.forced
    /\ lastReq.delay = MaxDelay
    /\ lastError.code = RESOURCE_EXHAUSTED

\* C9, as claimed: no wait of the backoff policy is started before the begin
\* of the first attempt, and one wait is started between the rollback of an
\* attempt and the begin of the next.
C9_FirstAttemptNeverWaits ==
    /\ lastReq.type = "backoff" => lastReq.attempt >= 1
    /\ pc = "begin" => nBackoff = attempt

\* C9, amended: one wait of the backoff policy is started before the begin
\* of every attempt, the first included; the wait before the first attempt
\* is not reset to the maximum and has the delay of a new policy, zero; one
\* wait is started between the rollback of an attempt and the begin of the
\* next.
C9_OneWaitBeforeEveryBegin ==
    /\ pc = "backoff"
           => /\ lastReq.type = "backoff"
              /\ lastReq.attempt = attempt
              /\ nBackoff = attempt + 1
              /\ nBegin = attempt
              /\ nRollback = attempt
    /\ pc = "begin" => (nBackoff = attempt + 1 /\ nBegin = attempt + 1)
    /\ (lastReq.type = "backoff" /\ lastReq.attempt = 0)
           => (~lastReq.forced /\ lastReq.delay = 0)

\* The wait before the first begin is in progress.
C9_Witness ==
    /\ pc = "backoff"
    /\ attempt = 0
    /\ nBackoff = 1
    /\ nBegin = 0

\* C10: the update function is invoked with no write buffered, whatever the
\* attempts before buffered, and the writes a commit request carries were
\* all recorded in the attempt of that request.
C10_WritesOfThisAttemptOnly ==
    /\ lastReq.type = "invoke" => lastReq.writes = <<>>
    /\ pc = "work" => \A i \in 1..Len(ops) : ops[i].attempt = attempt
    /\ lastReq.type = "commit"
           => \A i \in 1..Len(lastReq.writes) :
                  lastReq.writes[i].attempt = lastReq.attempt

\* A commit request of the second attempt carries writes, after the reset
\* dropped the writes of the first attempt.
C10_Witness ==
    /\ lastReq.type = "commit"
    /\ lastReq.attempt = 1
    /\ discarded > 0
    /\ Len(lastReq.writes) > 0

\* The handle the server issued to the begin request of attempt i: every
\* attempt before it had one begin request, and that one was answered.
HandleOf(i) == i + 1

\* C11: the begin request of the first attempt carries no retry hint; the
\* begin request of a later attempt carries the handle that the begin of
\* the attempt before returned; the reset does not clear the handle, which
\* stays the one of the attempt before until the begin response arrives.
C11_RetryHint ==
    /\ lastReq.type = "begin"
           => /\ lastReq.attempt = 0 => lastReq.hint = NoId
              /\ lastReq.attempt >= 1
                     => lastReq.hint = HandleOf(lastReq.attempt - 1)
    /\ pc \in {"backoff", "begin"}
           => transactionId = IF attempt = 0 THEN NoId
                              ELSE HandleOf(attempt - 1)
    /\ pc \in {"work", "commit", "rollback"}
           => transactionId = HandleOf(attempt)

\* The begin request of the third attempt is in flight with the handle of
\* the second attempt as its hint.
C11_Witness ==
    /\ pc = "begin"
    /\ attempt = 2
    /\ lastReq.type = "begin"
    /\ lastReq.hint = HandleOf(1)
    /\ transactionId = HandleOf(1)

\* C12, as claimed: at most one attempt is in progress; the begin request
\* of a later attempt is sent only after the rollback request of the attempt
\* before was answered and the wait was started; and while a later attempt
\* begins or runs its update function, no request of an earlier attempt is
\* still in flight.
C12_NoRequestOverlaps ==
    /\ nBegin <= nRollback + 1
    /\ (pc = "begin" /\ attempt >= 1)
           => /\ lastResp = "rollbackOk"
              /\ nRollback = attempt
              /\ nBackoff = attempt + 1
    /\ (pc \in {"begin", "work"} /\ attempt >= 1) => ~staleReads

\* C12, amended: at most one attempt is in progress; the begin request of a
\* later attempt is sent only after the rollback request of the attempt
\* before succeeded and the wait was started; the begin, commit or rollback
\* request in flight is the one of the current attempt, and between
\* attempts none is in flight.  (Read requests that a settled update
\* function left unanswered are not covered.)
C12_SequentialAttempts ==
    /\ nBegin <= nRollback + 1
    /\ (pc = "begin" /\ attempt >= 1)
           => /\ lastResp = "rollbackOk"
              /\ nRollback = attempt
              /\ nBackoff = attempt + 1
    /\ pc \in {"begin", "commit", "rollback"}
           => (lastReq.type = pc /\ lastReq.attempt = attempt)
    /\ pc = "work" => (lastReq.type \in {"invoke", "read"}
                       /\ lastReq.attempt = attempt
                       /\ lastResp = "beginOk")
    /\ pc \in {"loop", "backoff"} => lastResp \in {"none", "rollbackOk"}

\* The begin request of the second attempt is in flight while a read
\* request of the first attempt is still unanswered.
C12_Witness ==
    /\ pc = "begin"
    /\ attempt = 1
    /\ lastResp = "rollbackOk"
    /\ staleReads

\* The attempts a call with this maxAttempts can make.
Budget == IF maxAttempts > 0 THEN maxAttempts ELSE 0

\* C13: when every wait, request and run of the update function comes to
\* an end (FairSpec), runTransaction settles, resolved or rejected, and at
\* no time has it sent more than maxAttempts begin requests or invoked the
\* update function more than maxAttempts times.
C13_Terminates ==
    /\ <>(Done /\ outcome.kind \in {"resolved", "rejected"})
    /\ [](nBegin <= Budget /\ nInvoke <= Budget)
    /\ [](outcome.kind # "pending" <=> Done)

\* runTransaction has settled after using all of three attempts.
C13_Witness ==
    /\ Done
    /\ maxAttempts = 3
    /\ nBegin = 3
    /\ nInvoke = 3
    /\ outcome.kind = "rejected"


\* No value of the argument list is a DocumentReference.
NoDocumentReference(args) == \A i \in 1..Len(args) : args[i].type # "ref"

\* C14: a call of getAll whose argument list holds no document reference,
\* on a transaction without buffered write, throws the Error of the
\* argument validation and sends no read request.
C14_GetAllNeedsADocument ==
    (pc = "called" /\ isEmpty(ops) /\ NoDocumentReference(getAllArgs))
        => /\ lastCall.op = "getAll"
           /\ lastCall.thrown = ArgumentError(attempt)
           /\ ~lastCall.rpc

\* The read options of an argument list: its last value when that is a
\* plain object.
HasOptions(args) == Len(args) > 0 /\ args[Len(args)].type = "options"
\* An argument list parseGetAllArguments accepts: document references,
\* then at most one read options object whose fieldMask, if any, is an
\* array of field paths.
WellFormed(args) ==
    LET n == Len(args)
        last == IF HasOptions(args) THEN n - 1 ELSE n
    IN  /\ \A i \in 1..last : args[i].type = "ref"
        /\ HasOptions(args) =>
               \/ args[n].maskKind = "undefined"
               \/ /\ args[n].maskKind = "array"
                  /\ \A j \in 1..Len(args[n].fieldMask) :
                         Len(args[n].fieldMask[j].segs) > 0

\* C15: parseGetAllArguments throws when the first argument is an array;
\* when it returns, the documents are the arguments in their order without
\* a trailing plain options object, and the field mask is the fieldMask
\* entries of that object as FieldPaths in their order, null when there is
\* no options object or it has no fieldMask; it returns for every list of
\* document references followed by at most one valid options object.
C15_ParseSplit ==
    pc = "parsed" =>
        LET args == getAllArgs
            n == Len(args)
            nDocs == IF HasOptions(args) THEN n - 1 ELSE n
        IN  /\ (n > 0 /\ args[1].type = "array") => ~parsed.ok
            /\ WellFormed(args) => parsed.ok
            /\ parsed.ok =>
                   /\ Len(parsed.documents) = nDocs
                   /\ \A i \in 1..nDocs : parsed.documents[i] = args[i]
                   /\ IF HasOptions(args) /\ args[n].maskKind = "array"
                      THEN /\ ~parsed.fieldMask.isNull
                           /\ Len(parsed.fieldMask.paths)
                                  = Len(args[n].fieldMask)
                           /\ \A j \in 1..Len(args[n].fieldMask) :
                                  /\ parsed.fieldMask.paths[j].kind
                                         = "FieldPath"
                                  /\ parsed.fieldMask.paths[j].segs
                                         = args[n].fieldMask[j].segs
                      ELSE /\ parsed.fieldMask.isNull
                           /\ parsed.fieldMask.paths = <<>>

\* getAll(refA, refB, {fieldMask: ["x", new FieldPath("y", "z")]}) is
\* parsed into two documents and a field mask of two paths.
C15_Witness ==
    /\ pc = "parsed"
    /\ getAllArgs = <<DocRef(1), DocRef(2),
                      ReadOptions("array", <<PathString(<<"x">>),
                                             FieldPathObj(<<"y", "z">>)>>)>>
    /\ parsed.ok
    /\ parsed.documents = <<DocRef(1), DocRef(2)>>
    /\ parsed.fieldMask.paths = <<FieldPathObj(<<"x">>),
                                  FieldPathObj(<<"y", "z">>)>>

\* C16: a commit request is sent at most once in an attempt and only after
\* the update function of that attempt has resolved; when the commit
\* request fails a rollback request is sent, and runTransaction then
\* rejects with the commit error at once when that error is not retryable,
\* and only after the last attempt when it is retryable.
C16_CommitFailureLikeWorkFailure ==
    /\ nCommit <= nInvoke
    /\ nCommit <= (IF pc = "loop" THEN attempt ELSE attempt + 1)
    /\ lastReq.type = "commit"
           => /\ lastReq.attempt = attempt
              /\ result.attempt = attempt
    /\ (pc \in {"rollback", "done"} /\ err.origin = "commit")
           => /\ lastReq.type = "rollback"
              /\ lastReq.attempt = err.attempt
              /\ nRollback = err.attempt + 1
    /\ (Done /\ err.origin = "commit")
           => /\ outcome = Rejected(err)
              /\ IF isRetryableTransactionError(err)
                 THEN attempt = maxAttempts
                 ELSE attempt = err.attempt

\* C17: every read, commit and rollback request carries a handle, the one
\* that the begin response of its own attempt returned; and the handle the
\* transaction holds changes only when a begin request is answered with
\* success: _reset, the wait, a failed begin, reads, writes, commit and
\* rollback leave it as it is.
C17_HandleOfOwnAttempt ==
    /\ [](lastReq.type \in {"read", "commit", "rollback"}
             => /\ lastReq.tid # NoId
                /\ lastReq.tid = HandleOf(lastReq.attempt)
                /\ lastReq.tid = transactionId)
    /\ [][transactionId' # transactionId
             => /\ pc = "begin"
                /\ pc' = "work"
                /\ lastResp' = "beginOk"
                /\ transactionId' = HandleOf(attempt)]_vars

\* A read request of the second attempt carries the handle of the second
\* begin.
C17_Witness ==
    /\ pc = "work"
    /\ attempt = 1
    /\ lastReq.type = "read"
    /\ lastReq.attempt = 1
    /\ lastReq.tid = HandleOf(1)
    /\ transactionId = HandleOf(1)

\* C18: a call of get or getAll is rejected by the gate exactly when a
\* write is buffered at the time of the call, whatever the number of reads
\* in flight, and a read that is sent joins the reads in flight; a write
\* leaves the reads in flight as they are, and each of them can still be
\* answered.
C18_ReadsAreConcurrent ==
    /\ [][(/\ pc = "work"
           /\ pc' = "work"
           /\ IsRead(lastCall')
           /\ (lastCall' # lastCall \/ nReads' # nReads))
              => /\ ops' = ops
                 /\ (lastCall'.thrown.origin = "gate") <=> ~isEmpty(ops)
                 /\ lastCall'.rpc <=> lastCall'.thrown = NoError
                 /\ pendingReads' = IF lastCall'.rpc THEN pendingReads + 1
                                    ELSE pendingReads]_vars
    /\ [][(pc = "work" /\ ops' # ops /\ pc' = "work")
              => pendingReads' = pendingReads]_vars
    /\ []((pc = "work" /\ pendingReads > 0) => ENABLED ReadDone)

\* Two reads are in flight when a write is buffered.
C18_Witness ==
    /\ pc = "work"
    /\ pendingReads = 2
    /\ nReads = 2
    /\ lastCall.op = "write"
    /\ Len(ops) > 0

\* The attempts that have ended in the catch block: all the attempts before
\* the one that caught err, and that one.
Failed == IF err = NoError THEN attempt ELSE err.attempt + 1

\* C19: every begin that succeeded is followed by the invocation of the
\* update function, and when runTransaction has settled each of these
\* attempts has sent a rollback request, except the last one when its commit
\* succeeded; the rollback request of an attempt carries the handle of that
\* attempt and is the only one of that attempt, so that the rollback
\* requests are as many as the attempts whose update function or commit
\* failed; and the attempt whose commit succeeded sent no rollback request.
C19_NoTransactionLeftOpen ==
    /\ nRollback = Failed
    /\ Done => nInvoke = nRollback + (IF lastResp = "commitOk" THEN 1 ELSE 0)
    /\ lastReq.type = "rollback"
           => /\ lastReq.tid = HandleOf(lastReq.attempt)
              /\ nRollback = lastReq.attempt + 1
              /\ err.attempt = lastReq.attempt
    /\ lastResp = "commitOk"
           => /\ lastReq.type = "commit"
              /\ lastReq.tid = HandleOf(attempt)
              /\ nRollback = attempt
              /\ err = NoError

\* runTransaction resolved in its third attempt: two transactions were
\* rolled back and the third was committed.
C19_Witness ==
    /\ Done
    /\ lastResp = "commitOk"
    /\ attempt = 2
    /\ nInvoke = 3
    /\ nRollback = 2
    /\ lastReq.tid = HandleOf(2)

\* C20: when runTransaction has rejected, whatever maxAttempts, the error it
\* rejected with is one that a begin, commit or rollback request or the
\* update function (one of its calls on the transaction or its return
\* included) raised during the call, never an absent error, and at least
\* one begin request was sent.
C20_RejectsWithARaisedError ==
    (Done /\ outcome.kind = "rejected")
        => /\ outcome.error # NoError
           /\ outcome.error.origin \in {"begin", "work", "gate", "args",
                                        "promise", "commit", "rollback"}
           /\ outcome.error.attempt \in 0..attempt
           /\ nBegin >= 1

====
